---- MODULE Spec2Model ----
(***************************************************************************)
(* Model of the Auth class of the Kontist SDK (src/lib/auth.ts): the       *)
(* constructor, getAuthUri, fetchToken, fetchTokenFromCredentials,         *)
(* refreshTokenSilently, setToken, the authenticated request primitive,    *)
(* the device operations, and the MFA confirmation (getMFAConfirmedToken,  *)
(* its poll ticks, cancelMFAConfirmation).  JavaScript runs the handlers on one *)
(* event loop: a handler runs from one await to the next without           *)
(* interruption, so every action below is one such run.                    *)
(***************************************************************************)
EXTENDS Integers, FiniteSets, Sequences, TLC

VARIABLES
    inst,        \* "new" before the constructor ran, then "ok" or "failed" (it threw)
    opts,        \* the ClientOpts the constructor was called with (verifier, clientSecret)
    token,       \* this._token
    rejectMFAConfirmation,   \* this.rejectMFAConfirmation: NoConf (null) or the confirmation whose reject it is
    challengePollTimeoutId,  \* this.challengePollTimeoutId: NoConf (undefined) or the confirmation that set the timer
    now,         \* the wall clock, new Date()
    pc,          \* per confirmation: where its getMFAConfirmedToken / poll tick stands
    outcome,     \* per confirmation: the promise getMFAConfirmedToken returned
    expiresAt,   \* per confirmation: expiresAt of the challenge the server created
    nGet,        \* per confirmation: status GETs issued
    nPending,    \* per confirmation: status GETs that ended in scheduling the next poll
    nRedeem,     \* per confirmation: redemption POSTs issued
    canceled,    \* per confirmation: cancelMFAConfirmation was called during its life
    dev,         \* the device operation in progress (createDevice, verifyDevice, ...)
    env,         \* the host: what the globals `document` and `window` are
    hash64,      \* btoa of the bytes of sha256(this.verifier), a sequence of characters
    authUri,     \* the query getAuthUri last handed to oauth2Client.code.getUri
    oa           \* the OAuth operation in progress (fetchToken, refreshTokenSilently, ...)

vars == <<inst, opts, token, rejectMFAConfirmation, challengePollTimeoutId, now, pc,
          outcome, expiresAt, nGet, nPending, nRedeem, canceled, dev,
          env, hash64, authUri, oa>>

oauthVars == <<env, hash64, authUri, oa>>

mfaVars == <<rejectMFAConfirmation, challengePollTimeoutId, pc, outcome, expiresAt,
             nGet, nPending, nRedeem, canceled>>

----------------------------------------------------------------------------
(* Bounds of the model *)

\* the clock runs from 0 to MaxTime
MaxTime == 2
\* status GETs one confirmation may issue
MaxPolls == 2
\* characters of the base64 text of a hash, before its padding
MaxB64 == 3

(* Program constants *)

HTTP_STATUS_NO_CONTENT == 204
\* the challenge's time to live, in clock ticks (the server's choice)
ChallengeTTL == 1

----------------------------------------------------------------------------
(* Values *)

\* undefined / null / an absent optional argument
Undef == "-"

\* the confirmations (calls of getMFAConfirmedToken) of one Auth instance, in call order
Conf == {"A", "B"}
FirstConf == {"A"}
Earlier(c) == IF c = "B" THEN {"A"} ELSE {}
NoConf == "-"

AccessTokens == {"a1", "a2"}
RefreshTokens == {"r1"}
TokenTypes == {"bearer"}
Verifiers == {"v"}
ClientSecrets == {"s"}

\* statuses a response may carry; FetchFailed stands for fetch() itself rejecting
FetchFailed == 0
HttpStatuses == {200, 201, 204, 302, 500}
\* the answers the MFA endpoints give
MfaStatuses == {200, 204, 500}

ChallengeStatuses == {"PENDING", "VERIFIED", "DENIED"}

DeviceOps == {"createDevice", "verifyDevice", "createDeviceChallenge",
              "verifyDeviceChallenge"}

\* the characters of a base64 text: "A" stands for every letter and digit
Base64Chars == {"A", "+", "/"}
Base64Pad == "="
\* btoa of a hash: at least one character, then the padding ("=" after the 43
\* characters of a SHA-256)
Hash64Values ==
    {b \o <<Base64Pad>> : b \in UNION {[1..k -> Base64Chars] : k \in 1..MaxB64}}

\* the globals `document` and `window`: an object, declared but undefined or null,
\* or not declared at all (any host that is not a browser)
Globals == {"object", "undefined", "undeclared"}
Envs == [document : Globals, window : Globals]
Browser == [document |-> "object", window |-> "object"]

OAuthOps == {"getAuthUri", "fetchToken", "fetchTokenFromCredentials",
             "refreshTokenSilently"}

NoToken == [accessToken |-> Undef, refreshToken |-> Undef, tokenType |-> Undef]

NoErr == [name |-> Undef, status |-> 0, message |-> Undef]
Err(name) == [name |-> name, status |-> 0, message |-> Undef]

\* response.statusText, the server's reason phrase
StatusText(status) ==
    CASE status = 200 -> "OK"
      [] status = 201 -> "Created"
      [] status = 204 -> "No Content"
      [] status = 302 -> "Found"
      [] status = 500 -> "Internal Server Error"
      [] OTHER -> "Unknown"

\* a promise: not created, pending, resolved with a value, rejected with an error
NotStarted == [kind |-> "none", error |-> NoErr, token |-> NoToken, value |-> Undef]
Pending == [kind |-> "pending", error |-> NoErr, token |-> NoToken, value |-> Undef]
Resolved(t) == [kind |-> "resolved", error |-> NoErr, token |-> t, value |-> "token"]
ResolvedWith(v) == [kind |-> "resolved", error |-> NoErr, token |-> NoToken, value |-> v]
Rejected(e) == [kind |-> "rejected", error |-> e, token |-> NoToken, value |-> Undef]

\* resolve / reject of a promise: only a pending promise is settled
SettleAgain(p, result) == IF p.kind = "none" THEN p ELSE result
Settle(p, result) == IF p.kind = "pending" THEN result ELSE p

\* the `resolve` and `reject` callbacks of the promise of a confirmation
ResolveDropped(p, t) == p
Resolve(p, t) == Settle(p, Resolved(t))
RejectAgain(p, e) == IF p.kind = "none" THEN p ELSE Rejected(e)
Reject(p, e) == Settle(p, Rejected(e))

\* JavaScript truthiness of an optional string
Truthy(s) == s # Undef /\ s # ""

----------------------------------------------------------------------------
(* Pure parts of the code *)

\* constructor: `if (verifier && clientSecret) throw`
ConstructorThrowsOnEither(verifier, clientSecret) == Truthy(verifier) \/ Truthy(clientSecret)
ConstructorThrows(verifier, clientSecret) == Truthy(verifier) /\ Truthy(clientSecret)

\* oauth2Client.createToken: the Token built from the values given
CreateToken(accessToken, refreshToken, tokenType) ==
    [accessToken |-> accessToken, refreshToken |-> refreshToken, tokenType |-> tokenType]

\* setToken: which createToken overload is called
SetToken(accessToken, refreshToken, tokenType) ==
    IF Truthy(tokenType) /\ Truthy(refreshToken)
    THEN CreateToken(accessToken, refreshToken, tokenType)
    ELSE IF Truthy(refreshToken)
         THEN CreateToken(accessToken, refreshToken, Undef)
         ELSE CreateToken(accessToken, Undef, Undef)

\* request: `if (!this.token) throw new UserUnauthorizedError()`
UnauthorizedNever(tok) == FALSE
Unauthorized(tok) == tok = NoToken

\* fetch's response.ok
ResponseOkBelow400(status) == status >= 200 /\ status < 400
ResponseOk(status) == status >= 200 /\ status <= 299

\* request, once fetch has answered: what it throws or returns
\*   "undefined" for 204, "json" for the parsed body
RequestResult(status) ==
    IF status = FetchFailed
    THEN [threw |-> TRUE, error |-> Err("FetchError"), value |-> Undef]
    ELSE IF ~ResponseOk(status)
    THEN [threw |-> TRUE,
          error |-> [name |-> "KontistSDKError", status |-> status,
                     message |-> StatusText(status)],
          value |-> Undef]
    ELSE IF status = HTTP_STATUS_NO_CONTENT
    THEN [threw |-> FALSE, error |-> NoErr, value |-> "undefined"]
    ELSE [threw |-> FALSE, error |-> NoErr, value |-> "json"]

\* pollChallengeStatus: `new Date(challenge.expiresAt) < new Date()`
HasExpired(exp, t) == exp < t

\* pollChallengeStatus: the branch taken for an answered challenge
PollDecisionDeniedFirst(status, expired) ==
    IF status = "DENIED" THEN "denied"
    ELSE IF expired THEN "expired"
    ELSE IF status = "VERIFIED" THEN "verified"
    ELSE "pending"
PollDecision(status, expired) ==
    IF expired THEN "expired"
    ELSE IF status = "DENIED" THEN "denied"
    ELSE IF status = "VERIFIED" THEN "verified"
    ELSE "pending"

\* verifyDeviceChallenge: `const { refreshToken } = this._token || {}`
StoredRefreshTokenDropped(tok) == Undef
StoredRefreshToken(tok) == tok.refreshToken

\* String.prototype.split(sep)[0]: the text before the first separator
RECURSIVE SplitFirst(_, _)
SplitFirst(s, sep) ==
    IF s = <<>> \/ Head(s) = sep THEN <<>>
    ELSE <<Head(s)>> \o SplitFirst(Tail(s), sep)

\* String.prototype.replace(from, to) with a string pattern: the first occurrence only
RECURSIVE Replace(_, _, _)
Replace(s, from, to) ==
    IF s = <<>> THEN <<>>
    ELSE IF Head(s) = from THEN <<to>> \o Tail(s)
    ELSE <<Head(s)>> \o Replace(Tail(s), from, to)

\* refreshTokenSilently: `if (!document || !window) throw new SilentAuthorizationError`;
\* reading a global that is not declared throws a ReferenceError
HostCheck(e) ==
    IF e.document = "undeclared" THEN "ReferenceError"
    ELSE IF e.document = "undefined" THEN "SilentAuthorizationError"
    ELSE IF e.window = "undeclared" THEN "ReferenceError"
    ELSE IF e.window = "undefined" THEN "SilentAuthorizationError"
    ELSE "ok"

\* fetchToken, fetchTokenFromCredentials: `const token = await ...getToken(...);
\* this._token = token`: a rejected exchange throws before the assignment
TokenAfterExchangeOrNone(ok, current, obtained) == IF ok THEN obtained ELSE NoToken
TokenAfterExchange(ok, current, obtained) == IF ok THEN obtained ELSE current

\* getAuthUri: the code challenge made of the base64 text of the hash
\* (btoa(...) || "" is the text itself: btoa of a hash is never empty)
CodeChallenge(b64) == Replace(Replace(SplitFirst(b64, Base64Pad), "+", "-"), "/", "_")

\* getAuthUri: the query handed to oauth2Client.code.getUri
\* (without a verifier it has no code_challenge: the empty text stands for that)
NoQuery == [code_challenge |-> <<>>, code_challenge_method |-> Undef]
AuthQuery(verifier, b64) ==
    IF Truthy(verifier)
    THEN [code_challenge |-> CodeChallenge(b64), code_challenge_method |-> "S256"]
    ELSE NoQuery

----------------------------------------------------------------------------
IdleDev == [op |-> Undef, pc |-> "idle", refreshAtCall |-> Undef, result |-> NotStarted]
IdleOA == [op |-> Undef, pc |-> "idle", result |-> NotStarted]

\* the HTTP requests in flight
Requests ==
    {<<"mfa", c>> : c \in {x \in Conf : pc[x] \in {"creating", "getting", "redeeming"}}}
      \cup (IF dev.pc = "inflight" THEN {<<"device", dev.op>>} ELSE {})

\* before `new Auth(baseUrl, opts)`
InitNew ==
    /\ inst = "new"
    /\ opts = [verifier |-> Undef, clientSecret |-> Undef]
    /\ token = NoToken
    /\ rejectMFAConfirmation = NoConf
    /\ challengePollTimeoutId = NoConf
    /\ now = 0
    /\ pc = [c \in Conf |-> "idle"]
    /\ outcome = [c \in Conf |-> NotStarted]
    /\ expiresAt = [c \in Conf |-> 0]
    /\ nGet = [c \in Conf |-> 0]
    /\ nPending = [c \in Conf |-> 0]
    /\ nRedeem = [c \in Conf |-> 0]
    /\ canceled = [c \in Conf |-> FALSE]
    /\ dev = IdleDev
    /\ env = Browser
    /\ hash64 = <<"A", Base64Pad>>
    /\ authUri = NoQuery
    /\ oa = IdleOA

\* a freshly constructed instance (of a PKCE client): the field initialisers of the class
Init ==
    /\ inst = "ok"
    /\ opts = [verifier |-> "v", clientSecret |-> Undef]
    /\ token = NoToken
    /\ rejectMFAConfirmation = NoConf
    /\ challengePollTimeoutId = NoConf
    /\ now = 0
    /\ pc = [c \in Conf |-> "idle"]
    /\ outcome = [c \in Conf |-> NotStarted]
    /\ expiresAt = [c \in Conf |-> 0]
    /\ nGet = [c \in Conf |-> 0]
    /\ nPending = [c \in Conf |-> 0]
    /\ nRedeem = [c \in Conf |-> 0]
    /\ canceled = [c \in Conf |-> FALSE]
    /\ dev = IdleDev
    /\ env = Browser
    /\ hash64 = <<"A", Base64Pad>>
    /\ authUri = NoQuery
    /\ oa = IdleOA

----------------------------------------------------------------------------
(* new Auth(baseUrl, opts) *)
Construct(verifier, clientSecret) ==
    /\ UNCHANGED oauthVars
    /\ inst = "new"
    /\ opts' = [verifier |-> verifier, clientSecret |-> clientSecret]
    /\ inst' = IF ConstructorThrows(verifier, clientSecret) THEN "failed" ELSE "ok"
    /\ UNCHANGED <<token, now, dev>>
    /\ UNCHANGED mfaVars

(* auth.setToken(accessToken, refreshToken?, tokenType?) *)
SetTokenCall(accessToken, refreshToken, tokenType) ==
    /\ UNCHANGED oauthVars
    /\ inst = "ok"
    /\ token' = SetToken(accessToken, refreshToken, tokenType)
    /\ UNCHANGED <<inst, opts, now, dev>>
    /\ UNCHANGED mfaVars

(* time passes *)
Tick ==
    /\ UNCHANGED oauthVars
    /\ inst = "ok"
    /\ now < MaxTime
    /\ now' = now + 1
    /\ UNCHANGED <<inst, opts, token, dev>>
    /\ UNCHANGED mfaVars

----------------------------------------------------------------------------
(* createDevice, verifyDevice, createDeviceChallenge, verifyDeviceChallenge:
   the call, up to the await of fetch inside request *)
DevCall(op) ==
    /\ UNCHANGED oauthVars
    /\ inst = "ok"
    /\ dev.pc # "inflight"
    /\ dev' = IF Unauthorized(token)
              THEN [op |-> op, pc |-> "done", refreshAtCall |-> Undef,
                    result |-> Rejected(Err("UserUnauthorizedError"))]
              ELSE [op |-> op, pc |-> "inflight",
                    refreshAtCall |-> token.refreshToken, result |-> Pending]
    /\ UNCHANGED <<inst, opts, token, now>>
    /\ UNCHANGED mfaVars

(* fetch answers the device operation: the rest of request, and of verifyDeviceChallenge *)
DevResponse(status, access) ==
    /\ UNCHANGED oauthVars
    /\ dev.pc = "inflight"
    /\ LET r == RequestResult(status) IN
       IF r.threw
       THEN /\ dev' = [dev EXCEPT !.pc = "done", !.result = Rejected(r.error)]
            /\ token' = token
       ELSE IF dev.op # "verifyDeviceChallenge"
       THEN /\ dev' = [dev EXCEPT !.pc = "done", !.result = ResolvedWith(r.value)]
            /\ token' = token
       ELSE IF r.value = "undefined"
       THEN \* destructuring `{ token }` of undefined throws
            /\ dev' = [dev EXCEPT !.pc = "done", !.result = Rejected(Err("TypeError"))]
            /\ token' = token
       ELSE /\ token' = SetToken(access, StoredRefreshToken(token), Undef)
            /\ dev' = [dev EXCEPT !.pc = "done", !.result = Resolved(token')]
    /\ UNCHANGED <<inst, opts, now>>
    /\ UNCHANGED mfaVars

----------------------------------------------------------------------------
(* The poll tick of confirmation c up to its first await: request checks the token
   and issues the status GET, or throws UserUnauthorizedError, which the try/catch
   turns into reject(error) *)
TickStart(c) ==
    IF Unauthorized(token)
    THEN /\ pc' = [pc EXCEPT ![c] = "done"]
         /\ outcome' = [outcome EXCEPT
                          ![c] = Reject(@, Err("UserUnauthorizedError"))]
         /\ nGet' = nGet
    ELSE /\ pc' = [pc EXCEPT ![c] = "getting"]
         /\ outcome' = outcome
         /\ nGet' = [nGet EXCEPT ![c] = @ + 1]

(* auth.getMFAConfirmedToken(): up to `await this.request(MFA_CHALLENGE_PATH, POST)` *)
StartMFA(c) ==
    /\ UNCHANGED oauthVars
    /\ inst = "ok"
    /\ pc[c] = "idle"
    \* confirmations are named in the order of their calls
    /\ \A d \in Earlier(c) : pc[d] # "idle"
    /\ IF Unauthorized(token)
       THEN /\ pc' = [pc EXCEPT ![c] = "done"]
            /\ outcome' = [outcome EXCEPT ![c] = Rejected(Err("UserUnauthorizedError"))]
       ELSE /\ pc' = [pc EXCEPT ![c] = "creating"]
            /\ outcome' = [outcome EXCEPT ![c] = Pending]
    /\ UNCHANGED <<inst, opts, token, now, dev, rejectMFAConfirmation,
                   challengePollTimeoutId, expiresAt, nGet, nPending, nRedeem, canceled>>

(* the challenge-creation POST is answered; on success the first tick starts *)
CreateResponse(c, status) ==
    /\ UNCHANGED oauthVars
    /\ pc[c] = "creating"
    /\ LET r == RequestResult(status) IN
       IF r.threw
       THEN \* getMFAConfirmedToken rejects with the error of request
            /\ pc' = [pc EXCEPT ![c] = "done"]
            /\ outcome' = [outcome EXCEPT ![c] = Reject(@, r.error)]
            /\ UNCHANGED <<expiresAt, nGet>>
       ELSE IF r.value = "undefined"
       THEN \* `pendingChallenge.id` of undefined throws inside the try block
            /\ pc' = [pc EXCEPT ![c] = "done"]
            /\ outcome' = [outcome EXCEPT ![c] = Reject(@, Err("TypeError"))]
            /\ UNCHANGED <<expiresAt, nGet>>
       ELSE /\ expiresAt' = [expiresAt EXCEPT ![c] = now + ChallengeTTL]
            /\ TickStart(c)
    /\ UNCHANGED <<inst, opts, token, now, dev, rejectMFAConfirmation,
                   challengePollTimeoutId, nPending, nRedeem, canceled>>

(* the status GET is answered: the rest of the poll tick up to its next await *)
GetResponse(c, status, chStatus) ==
    /\ UNCHANGED oauthVars
    /\ pc[c] = "getting"
    /\ LET r == RequestResult(status) IN
       IF r.threw
       THEN \* catch (error) { return reject(error) }
            /\ pc' = [pc EXCEPT ![c] = "done"]
            /\ outcome' = [outcome EXCEPT ![c] = Reject(@, r.error)]
            /\ UNCHANGED <<rejectMFAConfirmation, challengePollTimeoutId,
                           nPending, nRedeem>>
       ELSE IF r.value = "undefined"
       THEN \* `challenge.expiresAt` of undefined throws outside the try block:
            \* the tick's own promise rejects, which nobody observes
            /\ rejectMFAConfirmation' = NoConf
            /\ pc' = [pc EXCEPT ![c] = "done"]
            /\ UNCHANGED <<outcome, challengePollTimeoutId, nPending, nRedeem>>
       ELSE LET d == PollDecision(chStatus, HasExpired(expiresAt[c], now)) IN
            CASE d = "expired" ->
                    /\ rejectMFAConfirmation' = NoConf
                    /\ pc' = [pc EXCEPT ![c] = "done"]
                    /\ outcome' = [outcome EXCEPT
                                     ![c] = Reject(@, Err("ChallengeExpiredError"))]
                    /\ UNCHANGED <<challengePollTimeoutId, nPending, nRedeem>>
              [] d = "denied" ->
                    /\ rejectMFAConfirmation' = NoConf
                    /\ pc' = [pc EXCEPT ![c] = "done"]
                    /\ outcome' = [outcome EXCEPT
                                     ![c] = Reject(@, Err("ChallengeDeniedError"))]
                    /\ UNCHANGED <<challengePollTimeoutId, nPending, nRedeem>>
              [] d = "verified" ->
                    /\ rejectMFAConfirmation' = NoConf
                    /\ IF Unauthorized(token)
                       THEN \* request throws out of the tick: nobody catches it
                            /\ pc' = [pc EXCEPT ![c] = "done"]
                            /\ nRedeem' = nRedeem
                       ELSE /\ pc' = [pc EXCEPT ![c] = "redeeming"]
                            /\ nRedeem' = [nRedeem EXCEPT ![c] = @ + 1]
                    /\ UNCHANGED <<outcome, challengePollTimeoutId, nPending>>
              [] OTHER ->
                    \* still pending: record reject and schedule the next tick
                    /\ rejectMFAConfirmation' = c
                    /\ challengePollTimeoutId' = c
                    /\ pc' = [pc EXCEPT ![c] = "waiting"]
                    /\ nPending' = [nPending EXCEPT ![c] = @ + 1]
                    /\ UNCHANGED <<outcome, nRedeem>>
    /\ UNCHANGED <<inst, opts, token, now, dev, expiresAt, nGet, canceled>>

(* the poll timer of confirmation c fires: the next tick starts *)
TimerFires(c) ==
    /\ UNCHANGED oauthVars
    /\ pc[c] = "waiting"
    /\ nGet[c] < MaxPolls
    /\ TickStart(c)
    /\ UNCHANGED <<inst, opts, token, now, dev, rejectMFAConfirmation,
                   challengePollTimeoutId, expiresAt, nPending, nRedeem, canceled>>

(* the redemption POST is answered: setToken(confirmedToken), resolve(token) *)
RedeemResponse(c, status, access) ==
    /\ UNCHANGED oauthVars
    /\ pc[c] = "redeeming"
    /\ pc' = [pc EXCEPT ![c] = "done"]
    /\ LET r == RequestResult(status) IN
       IF r.threw \/ r.value = "undefined"
       THEN \* the await is not inside a try block (and destructuring `{ token }` of
            \* undefined throws): the tick's own promise rejects, which nobody observes
            UNCHANGED <<token, outcome>>
       ELSE /\ token' = SetToken(access, Undef, Undef)
            /\ outcome' = [outcome EXCEPT ![c] = Resolve(@, token')]
    /\ UNCHANGED <<inst, opts, now, dev, rejectMFAConfirmation, challengePollTimeoutId,
                   expiresAt, nGet, nPending, nRedeem, canceled>>

\* a confirmation in its life: called and its chain of ticks not ended
Alive(c) == pc[c] \in {"creating", "getting", "waiting", "redeeming"}

(* auth.cancelMFAConfirmation() *)
CancelMFA ==
    /\ UNCHANGED oauthVars
    /\ inst = "ok"
    /\ LET t == challengePollTimeoutId
           r == rejectMFAConfirmation IN
       \* clearTimeout: a timer still scheduled is dropped, its tick never runs
       /\ pc' = IF t # NoConf /\ pc[t] = "waiting" THEN [pc EXCEPT ![t] = "cleared"] ELSE pc
       /\ outcome' = IF r # NoConf
                     THEN [outcome EXCEPT
                             ![r] = Reject(@, Err("MFAConfirmationCanceledError"))]
                     ELSE outcome
    /\ canceled' = [c \in Conf |-> canceled[c] \/ Alive(c)]
    /\ UNCHANGED <<inst, opts, token, now, dev, rejectMFAConfirmation,
                   challengePollTimeoutId, expiresAt, nGet, nPending, nRedeem>>

----------------------------------------------------------------------------
\* the OAuth operation has a frame open or a token exchange in flight
OABusy == oa.pc \in {"frame", "exchange"}

\* what authorizeSilently ends with: the code the frame posted, its timeout, its error
FrameOutcomes == {"code", "timeout", "error"}

(* auth.getAuthUri(): no await before its return, one run *)
GetAuthUri ==
    /\ inst = "ok"
    /\ ~OABusy
    /\ authUri' = AuthQuery(opts.verifier, hash64)
    /\ oa' = [op |-> "getAuthUri", pc |-> "done", result |-> ResolvedWith("uri")]
    /\ UNCHANGED <<inst, opts, token, now, dev, env, hash64>>
    /\ UNCHANGED mfaVars

(* auth.fetchToken(callbackUri) and auth.fetchTokenFromCredentials(options): up to the
   await of the token exchange *)
FetchTokenCall(op) ==
    /\ inst = "ok"
    /\ ~OABusy
    /\ oa' = [op |-> op, pc |-> "exchange", result |-> Pending]
    /\ UNCHANGED <<inst, opts, token, now, dev, env, hash64, authUri>>
    /\ UNCHANGED mfaVars

(* auth.refreshTokenSilently(): the host check, getAuthUri, up to the await of
   authorizeSilently *)
RefreshCall ==
    /\ inst = "ok"
    /\ ~OABusy
    /\ LET h == HostCheck(env) IN
       IF h = "ok"
       THEN /\ authUri' = AuthQuery(opts.verifier, hash64)
            /\ oa' = [op |-> "refreshTokenSilently", pc |-> "frame", result |-> Pending]
       ELSE /\ authUri' = authUri
            /\ oa' = [op |-> "refreshTokenSilently", pc |-> "done",
                      result |-> Rejected(Err(h))]
    /\ UNCHANGED <<inst, opts, token, now, dev, env, hash64>>
    /\ UNCHANGED mfaVars

(* authorizeSilently ends: with a code, fetchToken starts the exchange; otherwise the
   catch block throws SilentAuthorizationError *)
FrameResponse(r) ==
    /\ oa.pc = "frame"
    /\ oa' = IF r = "code"
             THEN [oa EXCEPT !.pc = "exchange"]
             ELSE [oa EXCEPT !.pc = "done",
                             !.result = Rejected(Err("SilentAuthorizationError"))]
    /\ UNCHANGED <<inst, opts, token, now, dev, env, hash64, authUri>>
    /\ UNCHANGED mfaVars

(* the provider answers the token exchange: getToken resolves with the Token made of
   the answer, or rejects *)
ExchangeResponse(ok, accessToken, refreshToken, tokenType) ==
    /\ oa.pc = "exchange"
    /\ token' = TokenAfterExchange(ok, token,
                                   CreateToken(accessToken, refreshToken, tokenType))
    /\ IF ok
       THEN oa' = [oa EXCEPT !.pc = "done", !.result = Resolved(token')]
       ELSE oa' = [oa EXCEPT !.pc = "done",
                      !.result = IF oa.op = "refreshTokenSilently"
                                 THEN Rejected(Err("SilentAuthorizationError"))
                                 ELSE Rejected(Err("OAuthError"))]
    /\ UNCHANGED <<inst, opts, now, dev, env, hash64, authUri>>
    /\ UNCHANGED mfaVars

----------------------------------------------------------------------------
(* One instance: tokens, device operations and one confirmation, interleaved *)
Next ==
    \/ \E a \in AccessTokens, r \in RefreshTokens \cup {Undef},
          t \in TokenTypes \cup {Undef} : SetTokenCall(a, r, t)
    \/ Tick
    \/ \E op \in DeviceOps : DevCall(op)
    \/ \E s \in HttpStatuses \cup {FetchFailed}, a \in AccessTokens : DevResponse(s, a)
    \/ \E c \in FirstConf : StartMFA(c)
    \/ \E c \in FirstConf, s \in MfaStatuses \cup {FetchFailed} : CreateResponse(c, s)
    \/ \E c \in FirstConf, s \in MfaStatuses \cup {FetchFailed},
          st \in ChallengeStatuses : GetResponse(c, s, st)
    \/ \E c \in FirstConf : TimerFires(c)
    \/ \E c \in FirstConf, s \in MfaStatuses \cup {FetchFailed}, a \in AccessTokens :
          RedeemResponse(c, s, a)
    \/ CancelMFA

Spec == Init /\ [][Next]_vars

(* One instance running overlapping confirmations; setToken is called without a
   token type, which the confirmation code never reads, and with one access token
   (the redemption answers with that one or with another) *)
NextMFA ==
    \/ \E r \in RefreshTokens \cup {Undef} : SetTokenCall("a1", r, Undef)
    \/ Tick
    \/ \E c \in Conf : StartMFA(c)
    \/ \E c \in Conf, s \in MfaStatuses \cup {FetchFailed} : CreateResponse(c, s)
    \/ \E c \in Conf, s \in MfaStatuses \cup {FetchFailed}, st \in ChallengeStatuses :
          GetResponse(c, s, st)
    \/ \E c \in Conf : TimerFires(c)
    \/ \E c \in Conf, s \in MfaStatuses \cup {FetchFailed}, a \in AccessTokens :
          RedeemResponse(c, s, a)
    \/ CancelMFA

SpecMFA == Init /\ [][NextMFA]_vars

(* Construction with every combination of verifier and clientSecret, then the
   operations that do not poll *)
NextCtor ==
    \/ \E v \in Verifiers \cup {Undef, ""}, s \in ClientSecrets \cup {Undef, ""} :
          Construct(v, s)
    \/ \E a \in AccessTokens, r \in RefreshTokens \cup {Undef},
          t \in TokenTypes \cup {Undef} : SetTokenCall(a, r, t)
    \/ \E op \in DeviceOps : DevCall(op)
    \/ \E s \in HttpStatuses \cup {FetchFailed}, a \in AccessTokens : DevResponse(s, a)

SpecCtor == InitNew /\ [][NextCtor]_vars

(* An instance of a PKCE client or of a client with a secret, on any host, with any
   hash of its verifier: the OAuth operations and setToken, interleaved *)
InitOAuth ==
    /\ inst = "ok"
    /\ opts \in {[verifier |-> "v", clientSecret |-> Undef],
                 [verifier |-> Undef, clientSecret |-> "s"]}
    /\ token = NoToken
    /\ rejectMFAConfirmation = NoConf
    /\ challengePollTimeoutId = NoConf
    /\ now = 0
    /\ pc = [c \in Conf |-> "idle"]
    /\ outcome = [c \in Conf |-> NotStarted]
    /\ expiresAt = [c \in Conf |-> 0]
    /\ nGet = [c \in Conf |-> 0]
    /\ nPending = [c \in Conf |-> 0]
    /\ nRedeem = [c \in Conf |-> 0]
    /\ canceled = [c \in Conf |-> FALSE]
    /\ dev = IdleDev
    /\ env \in Envs
    /\ hash64 \in Hash64Values
    /\ authUri = NoQuery
    /\ oa = IdleOA

NextOAuth ==
    \/ \E a \in AccessTokens, r \in RefreshTokens \cup {Undef},
          t \in TokenTypes \cup {Undef} : SetTokenCall(a, r, t)
    \/ GetAuthUri
    \/ \E op \in {"fetchToken", "fetchTokenFromCredentials"} : FetchTokenCall(op)
    \/ RefreshCall
    \/ \E r \in FrameOutcomes : FrameResponse(r)
    \/ \E ok \in BOOLEAN, a \in AccessTokens, r \in RefreshTokens \cup {Undef},
          t \in TokenTypes : ExchangeResponse(ok, a, r, t)

SpecOAuth == InitOAuth /\ [][NextOAuth]_vars

\* the answers that carry a parsed body
BodyAnswers == {s \in MfaStatuses : s >= 200 /\ s <= 299 /\ s # 204}

(* Confirmations on a server and a network that work: every request is answered
   with success and a body, timers fire, the clock advances *)
NextLive ==
    \/ SetTokenCall("a1", Undef, Undef)
    \/ Tick
    \/ \E c \in Conf : StartMFA(c)
    \/ \E c \in Conf, s \in BodyAnswers : CreateResponse(c, s)
    \/ \E c \in Conf, s \in BodyAnswers, st \in ChallengeStatuses : GetResponse(c, s, st)
    \/ \E c \in Conf : TimerFires(c)
    \/ \E c \in Conf, s \in BodyAnswers, a \in AccessTokens : RedeemResponse(c, s, a)
    \/ CancelMFA

SpecLive ==
    /\ Init /\ [][NextLive]_vars
    /\ WF_vars(Tick)
    /\ \A c \in Conf :
          /\ WF_vars(\E s \in BodyAnswers : CreateResponse(c, s))
          /\ WF_vars(\E s \in BodyAnswers, st \in ChallengeStatuses : GetResponse(c, s, st))
          /\ WF_vars(TimerFires(c))
          /\ WF_vars(\E s \in BodyAnswers, a \in AccessTokens : RedeemResponse(c, s, a))

----------------------------------------------------------------------------
(* Properties *)

Canceled == Rejected(Err("MFAConfirmationCanceledError"))
UnauthorizedError == Rejected(Err("UserUnauthorizedError"))
\* the answers of fetch that request turns into an error
FailingAnswers == {s \in MfaStatuses \cup {FetchFailed} : s < 200 \/ s > 299}

(* C1: when cancelMFAConfirmation() is called while a confirmation waits on its
   scheduled poll timer, that confirmation is rejected with
   MFAConfirmationCanceledError and its timer is cleared; a confirmation whose timer
   was cleared never issues a status GET or a redemption POST again. *)
C1_CancelWhileWaiting ==
    [][ /\ CancelMFA =>
             \A c \in Conf : pc[c] = "waiting" =>
                 outcome'[c] = Canceled /\ pc'[c] = "cleared"
        /\ \A c \in Conf : pc[c] = "cleared" =>
                 pc'[c] = "cleared" /\ nGet'[c] = nGet[c] /\ nRedeem'[c] = nRedeem[c]
      ]_vars

(* C2: once cancelMFAConfirmation() was called during the life of a confirmation
   (creation POST or status GET in flight included), that confirmation has no poll
   timer scheduled afterwards and, ending canceled, never resolves. *)
C2_NoTimerAfterCancel ==
    \A c \in Conf : canceled[c] =>
        pc[c] # "waiting" /\ outcome[c].kind # "resolved"

(* C3: when the redemption POST succeeds, the Token stored as current has the
   redeemed access token and the refresh token the current Token held before. *)
C3_RedeemKeepsRefreshToken ==
    [][ \A c \in Conf, s \in BodyAnswers, a \in AccessTokens :
            RedeemResponse(c, s, a) =>
                /\ token'.accessToken = a
                /\ token'.refreshToken = token.refreshToken
      ]_vars

(* C5: a confirmation that was never canceled and whose redemption POST is answered
   with a token (so its polls were answered n times PENDING, then VERIFIED, none
   expired and none failed) resolves with the Token built from that answer, which is
   then the current Token; it has issued exactly n+1 status GETs and one redemption
   POST. *)
C5_PendingThenVerifiedResolves ==
    [][ \A c \in Conf, s \in BodyAnswers, a \in AccessTokens :
            (RedeemResponse(c, s, a) /\ ~canceled[c]) =>
                /\ outcome'[c].kind = "resolved"
                /\ outcome'[c].token = token'
                /\ token'.accessToken = a
                /\ nGet'[c] = nPending'[c] + 1
                /\ nRedeem'[c] = 1
      ]_vars

C5_Witness ==
    \E c \in Conf :
        /\ outcome[c].kind = "resolved" /\ outcome[c].token = token
        /\ ~canceled[c]
        /\ nPending[c] = 1 /\ nGet[c] = 2 /\ nRedeem[c] = 1

(* C6: an answered poll past expiresAt calls reject(ChallengeExpiredError) whatever
   the status; a poll not past expiresAt that saw DENIED calls
   reject(ChallengeDeniedError); both end the chain of ticks without a redemption
   POST and without a timer; a redemption POST is issued only by a poll that saw
   VERIFIED and was not past expiresAt. *)
C6_DecisionPriority ==
    [][ \A c \in Conf :
          /\ \A s \in BodyAnswers, st \in ChallengeStatuses :
                GetResponse(c, s, st) =>
                   /\ expiresAt[c] < now =>
                        /\ outcome'[c] = IF outcome[c].kind = "pending"
                                         THEN Rejected(Err("ChallengeExpiredError"))
                                         ELSE outcome[c]
                        /\ pc'[c] = "done" /\ nRedeem'[c] = nRedeem[c]
                   /\ (~(expiresAt[c] < now) /\ st = "DENIED") =>
                        /\ outcome'[c] = IF outcome[c].kind = "pending"
                                         THEN Rejected(Err("ChallengeDeniedError"))
                                         ELSE outcome[c]
                        /\ pc'[c] = "done" /\ nRedeem'[c] = nRedeem[c]
          /\ nRedeem'[c] # nRedeem[c] =>
                /\ ~(expiresAt[c] < now)
                /\ \E s \in BodyAnswers : GetResponse(c, s, "VERIFIED")
      ]_vars

C6_Witness ==
    \E c \in Conf :
        /\ outcome[c] = Rejected(Err("ChallengeExpiredError"))
        /\ pc[c] = "done" /\ nGet[c] = 1 /\ nRedeem[c] = 0

(* C7: a failed status GET or redemption POST (fetch rejects, or a non-2xx answer)
   of a confirmation still pending rejects it with that error and ends its chain of
   ticks. *)
C7_FailureRejects ==
    [][ \A c \in Conf, s \in FailingAnswers :
          /\ \A st \in ChallengeStatuses :
                (GetResponse(c, s, st) /\ outcome[c].kind = "pending") =>
                    outcome'[c] = Rejected(RequestResult(s).error) /\ pc'[c] = "done"
          /\ \A a \in AccessTokens :
                (RedeemResponse(c, s, a) /\ outcome[c].kind = "pending") =>
                    outcome'[c] = Rejected(RequestResult(s).error) /\ pc'[c] = "done"
      ]_vars

(* C8: a device operation or getMFAConfirmedToken() called while no current Token
   exists is rejected with UserUnauthorizedError and puts no HTTP request in flight;
   a confirmation past its call always finds a current Token, so no poll step runs
   without one. *)
C8_NoTokenNoRequest ==
    [][ /\ \A op \in DeviceOps :
              (DevCall(op) /\ token = NoToken) =>
                  dev'.result = UnauthorizedError /\ Requests' = Requests
        /\ \A c \in Conf :
              (StartMFA(c) /\ token = NoToken) =>
                  outcome'[c] = UnauthorizedError /\ Requests' = Requests
        /\ \A c \in Conf : pc'[c] \in {"creating", "getting", "waiting", "redeeming"}
                              => token' # NoToken
      ]_vars

C8_Witness ==
    /\ token = NoToken
    /\ dev.pc = "done" /\ dev.op = "createDevice" /\ dev.result = UnauthorizedError
    /\ \E c \in Conf : pc[c] = "done" /\ outcome[c] = UnauthorizedError
    /\ Requests = {}

(* C9: the result of createDevice, verifyDevice and createDeviceChallenge (each
   returns what request returns) is decided by the HTTP status alone: 204 resolves
   with no value, a non-2xx status rejects with a KontistSDKError carrying that status
   and the status text, any other 2xx resolves with the parsed body; the current
   Token is unchanged. *)
C9_StatusDecidesResult ==
    [][ \A s \in HttpStatuses, a \in AccessTokens :
            (DevResponse(s, a) /\ dev.op # "verifyDeviceChallenge") =>
                /\ token' = token
                /\ dev'.result =
                      IF s = 204 THEN ResolvedWith("undefined")
                      ELSE IF s < 200 \/ s > 299
                      THEN Rejected([name |-> "KontistSDKError", status |-> s,
                                     message |-> StatusText(s)])
                      ELSE ResolvedWith("json")
      ]_vars

C9_Witness ==
    /\ dev.op = "verifyDevice" /\ dev.pc = "done"
    /\ dev.result = ResolvedWith("undefined")
    /\ token # NoToken

(* C4 as claimed: on success of verifyDeviceChallenge the new current Token is the
   returned one, carries the access token of the response and the refresh token stored
   when the response arrived, and a refresh token stored before the call is still
   present. *)
C4_RefreshTokenOfCallKept ==
    [][ \A s \in HttpStatuses \ {204}, a \in AccessTokens :
            (DevResponse(s, a) /\ dev.op = "verifyDeviceChallenge" /\ s >= 200 /\ s <= 299) =>
                /\ dev'.result = Resolved(token')
                /\ token'.accessToken = a
                /\ token'.refreshToken = token.refreshToken
                /\ dev.refreshAtCall # Undef => token'.refreshToken = dev.refreshAtCall
      ]_vars

(* C4 amended: on success of verifyDeviceChallenge the new current Token is the
   returned one and carries the access token of the response and the refresh token of
   the Token stored when the response arrived; a refresh token stored at that moment
   is still present afterwards. *)
C4_RefreshTokenOfResponseKept ==
    [][ \A s \in HttpStatuses \ {204}, a \in AccessTokens :
            (DevResponse(s, a) /\ dev.op = "verifyDeviceChallenge" /\ s >= 200 /\ s <= 299) =>
                /\ dev'.result = Resolved(token')
                /\ token'.accessToken = a
                /\ token'.refreshToken = token.refreshToken
      ]_vars

C4_Witness ==
    /\ dev.op = "verifyDeviceChallenge" /\ dev.pc = "done"
    /\ dev.result = Resolved(token)
    /\ token.refreshToken = "r1" /\ dev.refreshAtCall = "r1"

(* C10: the constructor fails exactly when both verifier and clientSecret are
   non-empty, and a failed construction leaves no instance to operate on. *)
C10_BothGivenFails ==
    inst # "new" =>
        /\ inst = "failed" <=>
              (opts.verifier \notin {Undef, ""} /\ opts.clientSecret \notin {Undef, ""})
        /\ inst = "failed" => token = NoToken /\ dev = IdleDev

C10_Witness ==
    inst = "failed" /\ opts.verifier = "v" /\ opts.clientSecret = "s"

(* C11: cancelMFAConfirmation() called while no operation is pending (none started,
   or every one already resolved or rejected, a cancel just before included) settles
   no operation, puts no request in flight, schedules no timer, and leaves the
   current Token, the instance and its recorded timer id and reject callback as they
   were. *)
C11_CancelNothingPending ==
    [][ (CancelMFA /\ \A c \in Conf : outcome[c].kind # "pending") =>
            /\ outcome' = outcome
            /\ Requests' = Requests
            /\ \A c \in Conf : pc'[c] = "waiting" => pc[c] = "waiting"
            /\ token' = token /\ inst' = inst
            /\ rejectMFAConfirmation' = rejectMFAConfirmation
            /\ challengePollTimeoutId' = challengePollTimeoutId
            /\ nGet' = nGet /\ nRedeem' = nRedeem
      ]_vars

\* nothing is pending and the recorded reject callback is the stale one of an
\* operation that a failed status GET already rejected: a cancel here calls it again
C11_Witness ==
    /\ inst = "ok"
    /\ \A c \in Conf : outcome[c].kind # "pending"
    /\ \E c \in Conf : /\ rejectMFAConfirmation = c
                        /\ outcome[c].kind = "rejected"
                        /\ outcome[c].error.name = "KontistSDKError"

----------------------------------------------------------------------------
\* the reference: every occurrence of a character replaced
RECURSIVE ReplaceAll(_, _, _)
ReplaceAll(s, from, to) ==
    IF s = <<>> THEN <<>>
    ELSE <<IF Head(s) = from THEN to ELSE Head(s)>> \o ReplaceAll(Tail(s), from, to)

NotPad(ch) == ch # Base64Pad
\* base64url without padding of a base64 text (RFC 7636, appendix A)
Base64Url(b64) == ReplaceAll(ReplaceAll(SelectSeq(b64, NotPad), "+", "-"), "/", "_")

Chars(s) == {s[i] : i \in 1..Len(s)}

(* C12: once getAuthUri (called directly or by refreshTokenSilently) has built the
   query of a client with a verifier, its code_challenge is the base64 text of
   SHA-256(verifier) with the padding removed, every "+" replaced by "-" and every "/"
   by "_", so none of "=", "+", "/" is left, and code_challenge_method is S256. *)
C12_ChallengeIsBase64Url ==
    (authUri # NoQuery) =>
        /\ authUri.code_challenge = Base64Url(hash64)
        /\ Chars(authUri.code_challenge) \cap {"=", "+", "/"} = {}
        /\ authUri.code_challenge_method = "S256"

(* C13: at most one poll timer is scheduled at any time, and while one is scheduled
   the recorded timer id and the recorded reject callback are those of the
   confirmation waiting on it, whose operation is pending. *)
C13_OneTimer ==
    LET waiting == {c \in Conf : pc[c] = "waiting"} IN
    /\ Cardinality(waiting) <= 1
    /\ \A c \in waiting : /\ challengePollTimeoutId = c
                          /\ rejectMFAConfirmation = c
                          /\ outcome[c].kind = "pending"

(* C14: an operation that is resolved or rejected keeps that result whatever runs
   later: a cancel after a tick settled it, or a tick that resolves or rejects after
   a cancel rejected it, does not change what the caller observes. *)
C14_SettledOnce ==
    [][ \A c \in Conf : outcome[c].kind \in {"resolved", "rejected"} =>
                             outcome'[c] = outcome[c]
      ]_vars

\* a cancel rejected the operation while its status GET was in flight, the poll saw
\* VERIFIED and the redemption POST has been answered since: the operation is still
\* rejected as canceled
C14_Witness ==
    \E c \in Conf : /\ canceled[c] /\ outcome[c] = Canceled
                    /\ pc[c] = "done" /\ nRedeem[c] = 1
                    /\ token.refreshToken = Undef

(* C15: fetchToken and fetchTokenFromCredentials change the current Token only when
   the exchange succeeds: the call leaves it alone; a successful exchange makes the
   Token obtained the current one and the operation resolves with that same Token; a
   rejected exchange rejects the operation and leaves the current Token, or its
   absence, as it was. *)
C15_ExchangeStoresToken ==
    [][ /\ \A op \in {"fetchToken", "fetchTokenFromCredentials"} :
              FetchTokenCall(op) => token' = token /\ oa'.result = Pending
        /\ \A ok \in BOOLEAN, a \in AccessTokens, r \in RefreshTokens \cup {Undef},
              t \in TokenTypes :
              (ExchangeResponse(ok, a, r, t) /\ oa.op # "refreshTokenSilently") =>
                  IF ok
                  THEN /\ token' = CreateToken(a, r, t)
                       /\ oa'.result = Resolved(token')
                  ELSE /\ token' = token
                       /\ oa'.result.kind = "rejected"
      ]_vars

\* a rejected exchange of fetchToken while a Token is stored
C15_Witness ==
    /\ oa.op = "fetchToken" /\ oa.pc = "done" /\ oa.result.kind = "rejected"
    /\ token.accessToken = "a2" /\ token.refreshToken = "r1"

(* C16: refreshTokenSilently ends in one of two ways: resolved with a new Token, which
   is then the current Token, or rejected with SilentAuthorizationError with the
   current Token unchanged.  On a host without `document` or `window` the call itself
   is rejected so, and opens no frame and sends no request; a frame that times out or
   reports an error, and a rejected code exchange, are rejected so as well. *)
C16_SilentRefreshOutcomes ==
    [][ /\ (RefreshCall /\ env # Browser) =>
              /\ oa'.result = Rejected(Err("SilentAuthorizationError"))
              /\ oa'.pc = "done"
              /\ token' = token /\ authUri' = authUri
        /\ \A r \in FrameOutcomes \ {"code"} :
              FrameResponse(r) =>
                  /\ oa'.result = Rejected(Err("SilentAuthorizationError"))
                  /\ oa'.pc = "done" /\ token' = token
        /\ \A ok \in BOOLEAN, a \in AccessTokens, r \in RefreshTokens \cup {Undef},
              t \in TokenTypes :
              (ExchangeResponse(ok, a, r, t) /\ oa.op = "refreshTokenSilently") =>
                  IF ok
                  THEN token' = CreateToken(a, r, t) /\ oa'.result = Resolved(token')
                  ELSE /\ token' = token
                       /\ oa'.result = Rejected(Err("SilentAuthorizationError"))
      ]_vars

(* C17: setToken(accessToken, refreshToken?, tokenType?) makes the Token it builds
   the current one, puts no request in flight, and that Token carries the given
   accessToken, the given refreshToken when one is given and the given tokenType when
   one is given, for every combination of refreshToken and tokenType given or not. *)
C17_SetTokenCarriesAll ==
    [][ \A a \in AccessTokens, r \in RefreshTokens \cup {Undef},
           t \in TokenTypes \cup {Undef} :
            SetTokenCall(a, r, t) =>
                /\ token'.accessToken = a
                /\ r # Undef => token'.refreshToken = r
                /\ t # Undef => token'.tokenType = t
                /\ Requests' = Requests
      ]_vars

(* C18: a confirmation whose operation is rejected (canceled, expired, denied or
   failed) issues no redemption POST afterwards and no answer to a redemption POST of
   its own stores a Token afterwards. *)
C18_RejectedStaysInert ==
    [][ \A c \in Conf : outcome[c].kind = "rejected" =>
            /\ nRedeem'[c] = nRedeem[c]
            /\ \A s \in BodyAnswers, a \in AccessTokens : ~RedeemResponse(c, s, a)
      ]_vars

(* C19: with every request answered successfully, timers firing and the clock
   advancing, an operation whose challenge was created settles, resolved with a Token
   or rejected with ChallengeExpiredError, ChallengeDeniedError or
   MFAConfirmationCanceledError, and once it is settled no poll timer of it is
   scheduled.  In the form a finite run decides: a settled operation has no timer
   scheduled, and a confirmation whose chain of ticks has ended is settled in one of
   those ways. *)
C19_SettlesAndNoTimerLeft ==
    \A c \in Conf :
        /\ outcome[c].kind \in {"resolved", "rejected"} => pc[c] # "waiting"
        /\ (pc[c] \in {"done", "cleared"} /\ nGet[c] > 0) =>
              \/ outcome[c].kind = "resolved" /\ outcome[c].token # NoToken
              \/ /\ outcome[c].kind = "rejected"
                 /\ outcome[c].error.name \in
                       {"ChallengeExpiredError", "ChallengeDeniedError",
                        "MFAConfirmationCanceledError"}

====
